---- MODULE Spec2Model ----
(***************************************************************************)
(* Model of the Michael Kors variation-matrix extractors: the bounded      *)
(* worker pool (mapLimit), the retrying fetcher (fetchJson) and the pooled *)
(* per-item fetch of extractOneProduct, and the batch drivers: the bulk    *)
(* driver (part_002), the incremental driver that saves item by item       *)
(* (part_001) and the combined driver (part_004).                          *)
(*                                                                         *)
(* A step of the model is one external event (a response or a body         *)
(* arriving, a timer firing) together with the synchronous code and the    *)
(* promise continuations it triggers up to the next await on an event.     *)
(* The return of a fetchJson call to the mapper awaiting it is a step of   *)
(* its own.                                                                *)
(***************************************************************************)
EXTENDS Integers, Sequences, FiniteSets, TLC

\* ---- bounds of the model ------------------------------------------------
MaxItems == 3        \* longest items array handed to mapLimit
MaxLimit == 2        \* largest concurrency limit tried
MaxRetries == 2      \* largest retry count R tried for one fetchJson call
MaxDelay == 2        \* largest retryDelayMs (in abstract time units)
MaxItemTasks == 2    \* most combinations of one item in the pooled fetch
MaxItemRetries == 1  \* largest retry count R tried in the pooled fetch
MaxValues == 2       \* most values of one variation attribute in a base response
MaxJobs == 2         \* most input pairs of a batch
MaxBatchRows == 2    \* most combinations of one item of a batch
MaxLineLen == 5      \* most characters of a data line of the input file

ItemValues == {"a", "b"}
Statuses == {200, 404}
ColorIdSet == {"", "A", "B"}   \* "" stands for a value without value and id
SizeIdSet == {"", "S", "M"}
ColorIds == <<"A", "B", "C", "D">>
SizeIds == <<"S", "M", "L", "XL">>
Drivers == {"bulk", "incremental", "combined"}
Urls == {"/shop/35S5S2ZC7B.html", "/about-us"}
Chars == {"a", ",", " ", "\""}

VARIABLES
    items,        \* mapLimit: the items array, a function 0..N-1 -> value
    limit,        \* mapLimit: the limit argument
    idx,          \* mapLimit: the shared next-index counter
    out,          \* mapLimit: the result array (Hole where nothing was stored)
    workers,      \* mapLimit: per worker, where it stands and the index it owns
    task,         \* per item index: undispatched / inflight / resolved / rejected
    poolState,    \* the promise returned by mapLimit: idle / pending / resolved / rejected
    retries,      \* fetchJson option
    retryDelayMs, \* fetchJson option
    fj,           \* per fetchJson call: its locals and the history of its attempts
    aborted,      \* per AbortController: has abort() been called
    product,      \* extractOneProduct: the color and size attributes of baseProduct
    disc,         \* extractOneProduct: { colors, sizes, hasSizeAttribute }
    stage,        \* extractOneProduct: where the function stands
    result,       \* extractOneProduct: the object it returns
    driver,       \* which batch driver runs
    input,        \* the rows read from the input CSV: <<[sku, url], ...>>
    phase,        \* main: where the driver stands
    pos,          \* sequential drivers: the input row in hand (1-based)
    pipe,         \* bulk driver: per job, where its extractOneProduct stands
    results,      \* sequential drivers: what each extraction so far gave
    acc,          \* the lists built in memory (bulk/bulkFlatRows, allProducts/allRows)
    jsonSink,     \* the structured output file, one entry per record
    csvSink,      \* the tabular output file, one entry per data row
    skipped,      \* bulk driver: the count it reports as skipped
    running,      \* the process has not been terminated
    concurrency,  \* args.concurrency, the limit of the inner pool of an item
    cancelled,    \* the caller of the pool has asked it to stop
    csvText       \* the data lines of the input file, each a sequence of characters

poolVars == <<items, limit, idx, out, workers, task, poolState>>
fetchVars == <<retries, retryDelayMs, fj, aborted>>
itemVars == <<product, disc, stage, result>>
envVars == <<concurrency, cancelled, csvText>>
batchVars == <<driver, input, phase, pos, pipe, results, acc,
               jsonSink, csvSink, skipped, running,
               concurrency, cancelled, csvText>>
restVars == <<product, disc, stage, result,
              driver, input, phase, pos, pipe, results, acc,
              jsonSink, csvSink, skipped, running,
              concurrency, cancelled, csvText>>
vars == <<items, limit, idx, out, workers, task, poolState,
          retries, retryDelayMs, fj, aborted,
          product, disc, stage, result,
          driver, input, phase, pos, pipe, results, acc,
          jsonSink, csvSink, skipped, running,
          concurrency, cancelled, csvText>>

MaxOfSecond(a, b) == b

Max(a, b) == IF a >= b THEN a ELSE b

N == Cardinality(DOMAIN items)

\* new Array(items.length): every slot is a hole until a worker stores into it
Hole == [hole |-> TRUE]

\* ---- mapLimit ------------------------------------------------------------

\* the value the abstract mapper of the generic pool resolves with
MapperValue(item, i) == [item |-> item, index |-> i]

NumWorkersOffByOne(lim) == lim + 1

\* Array.from({ length: Math.max(1, limit) }, () => worker())
NumWorkers(lim) == Max(1, lim)

WorkerStoreByCompletion(o, my, v) ==
    IF \E i \in DOMAIN o : o[i] = Hole
    THEN LET first == CHOOSE i \in DOMAIN o :
                        o[i] = Hole /\ \A j \in DOMAIN o : o[j] = Hole => i <= j
         IN [o EXCEPT ![first] = v]
    ELSE o

\* out[my] = <the awaited value>
WorkerStore(o, my, v) == [o EXCEPT ![my] = v]

WorkerLoopSameIndex(st, w) ==
    LET my == st.idx
    IN IF my >= N
       THEN [idx |-> st.idx,
             workers |-> [st.workers EXCEPT ![w] = [pc |-> "done", my |-> my]],
             task |-> st.task]
       ELSE [idx |-> IF st.task[my] = "inflight" THEN st.idx + 1 ELSE st.idx,
             workers |-> [st.workers EXCEPT ![w] = [pc |-> "await", my |-> my]],
             task |-> [st.task EXCEPT ![my] = "inflight"]]

\* One turn of the worker loop from its top: const my = idx++; return when
\* my >= items.length, otherwise call the mapper on items[my] and suspend.
\* st is the pool state [idx, workers, task].
WorkerLoop(st, w) ==
    LET my == st.idx
    IN IF my >= N
       THEN [idx |-> st.idx + 1,
             workers |-> [st.workers EXCEPT ![w] = [pc |-> "done", my |-> my]],
             task |-> st.task]
       ELSE [idx |-> st.idx + 1,
             workers |-> [st.workers EXCEPT ![w] = [pc |-> "await", my |-> my]],
             task |-> [st.task EXCEPT ![my] = "inflight"]]

\* the workers are created one after the other, each running synchronously
\* up to its first await
RECURSIVE StartWorkers(_, _, _)
StartWorkers(st, w, last) ==
    IF w > last THEN st ELSE StartWorkers(WorkerLoop(st, w), w + 1, last)

\* await Promise.all(workers): rejects as soon as one worker has rejected,
\* resolves once every worker has returned
PromiseAll(ws, cur) ==
    IF cur # "pending" THEN cur
    ELSE IF \E w \in DOMAIN ws : ws[w].pc = "rejected" THEN "rejected"
    ELSE IF \A w \in DOMAIN ws : ws[w].pc = "done" THEN "resolved"
    ELSE "pending"

\* the call mapLimit(items, limit, mapper) up to its await
MapLimitCall ==
    /\ poolState = "idle"
    /\ LET W == NumWorkers(limit)
           st0 == [idx |-> 0,
                   workers |-> [w \in 1..W |-> [pc |-> "new", my |-> 0]],
                   task |-> [i \in DOMAIN items |-> "undispatched"]]
           st == StartWorkers(st0, 1, W)
       IN /\ idx' = st.idx
          /\ workers' = st.workers
          /\ task' = st.task
          /\ out' = [i \in DOMAIN items |-> Hole]
          /\ poolState' = PromiseAll(st.workers, "pending")
    /\ UNCHANGED <<items, limit>>

\* the mapper promise awaited by worker w resolves with v: the worker stores
\* the value and goes round its loop again
WorkerResume(w, v) ==
    /\ w \in DOMAIN workers
    /\ workers[w].pc = "await"
    /\ LET my == workers[w].my
           st == WorkerLoop([idx |-> idx, workers |-> workers,
                             task |-> [task EXCEPT ![my] = "resolved"]], w)
       IN /\ out' = WorkerStore(out, my, v)
          /\ idx' = st.idx
          /\ workers' = st.workers
          /\ task' = st.task
          /\ poolState' = PromiseAll(st.workers, poolState)
    /\ UNCHANGED <<items, limit>>

\* the generic pool: the mapper of worker w resolves
MapperResolve(w) ==
    /\ w \in DOMAIN workers
    /\ workers[w].pc = "await"
    /\ WorkerResume(w, MapperValue(items[workers[w].my], workers[w].my))

\* the mapper promise awaited by worker w rejects: the await throws, nothing
\* catches it inside worker(), so the worker's promise rejects
MapperReject(w) ==
    /\ w \in DOMAIN workers
    /\ workers[w].pc = "await"
    /\ LET my == workers[w].my
           ws == [workers EXCEPT ![w] = [pc |-> "rejected", my |-> my]]
       IN /\ workers' = ws
          /\ task' = [task EXCEPT ![my] = "rejected"]
          /\ poolState' = PromiseAll(ws, poolState)
    /\ UNCHANGED <<items, limit, idx, out>>

\* ---- fetchJson -----------------------------------------------------------

\* const controller = new AbortController(): every call owns a fresh controller
ControllerShared(c) == 0

Controller(c) == c

\* the locals of a fetchJson call that has not started, with the history of
\* its attempts: resp[k] is what the network did to attempt k, waits[k] the
\* backoff delay started after attempt k, slept the number of delays over.
\* The history is kept only when hist is set.
FjNew(hist) ==
    [pc |-> "idle", attempt |-> 0, calls |-> 0, timer |-> "none",
     lastErr |-> "none", status |-> 0, result |-> 0,
     hist |-> hist, resp |-> <<>>, waits |-> <<>>, slept |-> 0]

\* what happened to one attempt: kind is "net" (fetch rejected with a network
\* error), "abort" (aborted while waiting for the response), "stale" (the
\* signal was already aborted when fetch was called) or "resp" (a response
\* arrived, with its status and what became of reading the body)
Outcome(kind, status, body) == [kind |-> kind, status |-> status, body |-> body]

\* history: attempt number rec.calls ended with outcome o
Note(rec, o) == IF rec.hist THEN [rec EXCEPT !.resp = Append(@, o)] ELSE rec

\* history: a backoff delay of ms was started
NoteWait(rec, ms) == IF rec.hist THEN [rec EXCEPT !.waits = Append(@, ms)] ELSE rec

\* history: a backoff delay is over
NoteSlept(rec) == IF rec.hist THEN [rec EXCEPT !.slept = @ + 1] ELSE rec

ResOkAlways(status) == TRUE

\* res.ok
ResOk(status) == status >= 200 /\ status <= 299

LoopContinuesOnceMore(attempt, R) == attempt <= R + 1

\* for (...; attempt <= retries; ...)
LoopContinues(attempt, R) == attempt <= R

\* if (attempt < retries) await sleep(...)
ShouldSleep(attempt, R) == attempt < R

BackoffDelayFromZero(B, attempt) == B * attempt

\* retryDelayMs * (attempt + 1)
BackoffDelay(B, attempt) == B * (attempt + 1)

FinallyBlockOnSuccessOnly(rec) ==
    IF rec.pc = "returned" /\ rec.timer = "armed"
    THEN [rec EXCEPT !.timer = "cleared"] ELSE rec

\* finally { clearTimeout(timer) }
FinallyBlock(rec) ==
    IF rec.timer = "armed" THEN [rec EXCEPT !.timer = "cleared"] ELSE rec

RECURSIVE ForLoop(_, _, _, _)
RECURSIVE CatchBlock(_, _, _, _, _)

\* The for loop from its condition: leave the loop and throw lastErr, or call
\* fetch. ab says whether the signal is already aborted, in which case fetch
\* rejects at once and the catch block runs in the same turn.
ForLoop(rec, ab, R, B) ==
    IF LoopContinues(rec.attempt, R)
    THEN LET r1 == [rec EXCEPT !.calls = @ + 1]
         IN IF ab
            THEN CatchBlock(Note(r1, Outcome("stale", 0, "none")),
                            "AbortError", ab, R, B)
            ELSE [r1 EXCEPT !.pc = "fetching"]
    ELSE FinallyBlock([rec EXCEPT !.pc = "thrown"])

\* catch (e) { lastErr = e; if (attempt < retries) await sleep(...) } and, when
\* it does not sleep, the attempt++ of the loop
CatchBlock(rec, err, ab, R, B) ==
    LET r1 == [rec EXCEPT !.lastErr = err]
    IN IF ShouldSleep(r1.attempt, R)
       THEN NoteWait([r1 EXCEPT !.pc = "sleeping"], BackoffDelay(B, r1.attempt))
       ELSE ForLoop([r1 EXCEPT !.attempt = @ + 1], ab, R, B)

\* fetchJson(url, opts) up to its first await: arm the timer, enter the loop
FetchJsonCall(rec, ab, R, B) == ForLoop([rec EXCEPT !.timer = "armed"], ab, R, B)

\* a stand-alone call of fetchJson (the base query of an item)
FetchJsonStart(c) ==
    /\ fj[c].pc = "idle"
    /\ fj' = [fj EXCEPT ![c] = FetchJsonCall(@, aborted[Controller(c)], retries, retryDelayMs)]
    /\ UNCHANGED <<retries, retryDelayMs, aborted>>
    /\ UNCHANGED poolVars

\* await fetch(...) rejects with a network error
FetchNetworkError(c) ==
    /\ fj[c].pc = "fetching"
    /\ fj' = [fj EXCEPT ![c] =
                CatchBlock(Note(@, Outcome("net", 0, "none")),
                           "NetworkError", aborted[Controller(c)], retries, retryDelayMs)]
    /\ UNCHANGED <<retries, retryDelayMs, aborted>>
    /\ UNCHANGED poolVars

\* await fetch(...) resolves with a response: if (!res.ok) read the text,
\* otherwise read the JSON
FetchResponse(c, status) ==
    /\ fj[c].pc = "fetching"
    /\ fj' = [fj EXCEPT ![c] =
                [@ EXCEPT !.status = status,
                          !.pc = IF ResOk(status) THEN "readJson" ELSE "readText"]]
    /\ UNCHANGED <<retries, retryDelayMs, aborted>>
    /\ UNCHANGED poolVars

\* return await res.json() with a well-formed body; the payload of attempt k
\* is named k
ReadJsonValid(c) ==
    /\ fj[c].pc = "readJson"
    /\ fj' = [fj EXCEPT ![c] =
                FinallyBlock(Note([@ EXCEPT !.pc = "returned", !.result = fj[c].calls],
                                  Outcome("resp", fj[c].status, "valid")))]
    /\ UNCHANGED <<retries, retryDelayMs, aborted>>
    /\ UNCHANGED poolVars

\* await res.json() throws a SyntaxError inside the try block
ReadJsonMalformed(c) ==
    /\ fj[c].pc = "readJson"
    /\ fj' = [fj EXCEPT ![c] =
                CatchBlock(Note(@, Outcome("resp", fj[c].status, "malformed")),
                           "SyntaxError", aborted[Controller(c)], retries, retryDelayMs)]
    /\ UNCHANGED <<retries, retryDelayMs, aborted>>
    /\ UNCHANGED poolVars

\* await res.text().catch(() => "") is over: throw new Error(`HTTP ...`)
ReadTextDone(c) ==
    /\ fj[c].pc = "readText"
    /\ fj' = [fj EXCEPT ![c] =
                CatchBlock(Note(@, Outcome("resp", fj[c].status, "text")),
                           "HttpError", aborted[Controller(c)], retries, retryDelayMs)]
    /\ UNCHANGED <<retries, retryDelayMs, aborted>>
    /\ UNCHANGED poolVars

\* the timer of sleep(ms) fires: attempt++ and the loop goes on
SleepDone(c) ==
    /\ fj[c].pc = "sleeping"
    /\ fj' = [fj EXCEPT ![c] =
                ForLoop(NoteSlept([@ EXCEPT !.attempt = @ + 1]),
                        aborted[Controller(c)], retries, retryDelayMs)]
    /\ UNCHANGED <<retries, retryDelayMs, aborted>>
    /\ UNCHANGED poolVars

\* what controller.abort() does to a call that uses the aborted signal: a
\* pending fetch or body read rejects with an AbortError
OnAbort(rec, R, B) ==
    IF rec.pc = "fetching"
    THEN CatchBlock(Note(rec, Outcome("abort", 0, "none")),
                    "AbortError", TRUE, R, B)
    ELSE IF rec.pc = "readJson"
    THEN CatchBlock(Note(rec, Outcome("resp", rec.status, "aborted")),
                    "AbortError", TRUE, R, B)
    ELSE IF rec.pc = "readText"
    THEN CatchBlock(Note(rec, Outcome("resp", rec.status, "aborted")),
                    "HttpError", TRUE, R, B)
    ELSE rec

\* the timer armed by call c fires: () => controller.abort()
TimerFire(c) ==
    /\ fj[c].timer = "armed"
    /\ aborted' = [aborted EXCEPT ![Controller(c)] = TRUE]
    /\ fj' = [fj EXCEPT ![c] = OnAbort([@ EXCEPT !.timer = "fired"], retries, retryDelayMs)]
    /\ UNCHANGED <<retries, retryDelayMs>>
    /\ UNCHANGED poolVars

\* ---- discovery and the combination list (extractOneProduct) -----------------

\* a variation attribute of the base response that is missing, or whose
\* values is not an array
NoAttr == [present |-> FALSE, values |-> <<>>]

NoDisc == [colors |-> <<>>, sizes |-> <<>>, hasSizeAttribute |-> FALSE]

NoResult ==
    [ok |-> FALSE, error |-> "", flatRows |-> <<>>, matrix |-> <<>>,
     warnings |-> <<>>]

\* .filter((v) => v?.selectable !== false)
\*   .map((v) => ({ id: String(v?.value ?? v?.id ?? ""), ... }))
\*   .filter((c) => c.id)
UsableValues(values) ==
    LET selectable == SelectSeq(values, LAMBDA v : v.selectable)
        mapped == [k \in 1..Len(selectable) |-> [id |-> selectable[k].id]]
    IN SelectSeq(mapped, LAMBDA c : c.id # "")

\* Boolean(Array.isArray(sizeAttr?.values) && sizeAttr.values.length)
HasSizeAttribute(sizeAttr) == sizeAttr.present /\ Len(sizeAttr.values) > 0

\* extractVariationAttributes(product)
ExtractVariationAttributes(p) ==
    [colors |-> IF p.color.present THEN UsableValues(p.color.values) ELSE <<>>,
     sizes |-> IF HasSizeAttribute(p.size)
               THEN UsableValues(p.size.values)
               ELSE <<[id |-> "NS"]>>,
     hasSizeAttribute |-> HasSizeAttribute(p.size)]

RECURSIVE PushSizes(_, _, _, _)
\* for (const s of sizes) tasks.push({ color: c, size: s })
PushSizes(tasks, c, sizes, j) ==
    IF j > Len(sizes) THEN tasks
    ELSE PushSizes(Append(tasks, [color |-> c, size |-> sizes[j]]), c, sizes, j + 1)

RECURSIVE PushColors(_, _, _, _)
\* for (const c of colors) for (const s of sizes) ...
PushColors(tasks, colors, sizes, i) ==
    IF i > Len(colors) THEN tasks
    ELSE PushColors(PushSizes(tasks, colors[i], sizes, 1), colors, sizes, i + 1)

TasksSizeMajor(colors, sizes) ==
    [k \in 1..(Len(colors) * Len(sizes)) |->
        [color |-> colors[((k - 1) % Len(colors)) + 1],
         size |-> sizes[((k - 1) \div Len(colors)) + 1]]]

\* const tasks = []; for (const c of colors) for (const s of sizes) tasks.push(...)
Tasks(colors, sizes) == PushColors(<<>>, colors, sizes, 1)

ToArrayReversed(seq) == [i \in 0..(Len(seq) - 1) |-> seq[Len(seq) - i]]

\* a JavaScript array (indices from 0) with the elements of a sequence
ToArray(seq) == [i \in 0..(Len(seq) - 1) |-> seq[i + 1]]

\* extractVariationAttributes(baseProduct) and the check of colors.length
Discover ==
    /\ stage = "base"
    /\ disc' = ExtractVariationAttributes(product)
    /\ stage' = IF Len(disc'.colors) = 0 THEN "nocolors" ELSE "discovered"
    /\ result' = IF Len(disc'.colors) = 0
                 THEN [ok |-> FALSE, error |-> "Could not extract colors",
                       flatRows |-> <<>>, matrix |-> <<>>, warnings |-> <<>>]
                 ELSE result
    /\ UNCHANGED product
    /\ UNCHANGED poolVars
    /\ UNCHANGED fetchVars
    /\ UNCHANGED batchVars

\* the loops that fill tasks
BuildTasks ==
    /\ stage = "discovered"
    /\ items' = ToArray(Tasks(disc.colors, disc.sizes))
    /\ stage' = "tasks"
    /\ UNCHANGED <<limit, idx, out, workers, task, poolState>>
    /\ UNCHANGED <<product, disc, result>>
    /\ UNCHANGED batchVars
    /\ UNCHANGED fetchVars

\* ---- the pooled fetch of one item (extractOneProduct) ------------------------

\* what the mapper returns for combination my once its fetchJson call is over:
\* the row of the try block, or the error row of the catch block
VariantRecordNoError(item, my, rec) ==
    [ok |-> rec.pc = "returned",
     color_id |-> item.color.id,
     size_id |-> item.size.id,
     index |-> my,
     payload |-> IF rec.pc = "returned" THEN rec.result ELSE 0,
     error |-> ""]

VariantRecord(item, my, rec) ==
    [ok |-> rec.pc = "returned",
     color_id |-> item.color.id,
     size_id |-> item.size.id,
     index |-> my,
     payload |-> IF rec.pc = "returned" THEN rec.result ELSE 0,
     error |-> IF rec.pc = "returned" THEN "" ELSE rec.lastErr]

\* every task that has just been dispatched runs its mapper up to
\* await fetchJson(url, ...), which runs up to its own first await
StartMappers(newTask, calls, ab) ==
    [c \in DOMAIN calls |->
        IF newTask[c] = "inflight" /\ calls[c].pc = "idle"
        THEN FetchJsonCall(calls[c], ab[Controller(c)], retries, retryDelayMs)
        ELSE calls[c]]

\* const results = await mapLimit(tasks, concurrency, async (...) => {...})
ItemMapLimitCall ==
    /\ MapLimitCall
    /\ fj' = StartMappers(task', fj, aborted)
    /\ UNCHANGED <<retries, retryDelayMs, aborted>>

\* the fetchJson call awaited by the mapper of worker w is over: the mapper
\* returns its row, the worker stores it and goes round its loop again
MapperReturn(w) ==
    /\ w \in DOMAIN workers
    /\ workers[w].pc = "await"
    /\ fj[workers[w].my].pc \in {"returned", "thrown"}
    /\ WorkerResume(w, VariantRecord(items[workers[w].my], workers[w].my,
                                     fj[workers[w].my]))
    /\ fj' = StartMappers(task', fj, aborted)
    /\ UNCHANGED <<retries, retryDelayMs, aborted>>

FlatRowsOkOnly(o) ==
    SelectSeq([k \in 1..N |-> o[k - 1]], LAMBDA r : r.ok)

\* flatRows: results, the array mapLimit resolved with
FlatRows(o) == [k \in 1..N |-> o[k - 1]]

\* the position in matrix of the group of color cid, 0 when there is none
\* (matrix[cid])
GroupOf(matrix, cid) ==
    IF \E g \in 1..Len(matrix) : matrix[g].color_id = cid
    THEN CHOOSE g \in 1..Len(matrix) : matrix[g].color_id = cid
    ELSE 0

\* if (!matrix[cid]) matrix[cid] = { color_id: cid, ..., sizes: {} };
\* matrix[cid].sizes[row.size_id] = row;
\* the groups are kept in the order in which their colors were first seen
MatrixPut(matrix, row) ==
    LET g == GroupOf(matrix, row.color_id)
    IN IF g = 0
       THEN Append(matrix, [color_id |-> row.color_id,
                            sizes |-> (row.size_id :> row)])
       ELSE [matrix EXCEPT ![g].sizes = (row.size_id :> row) @@ @]

RECURSIVE BuildMatrix(_, _, _)
\* const matrix = {}; for (const row of results) {...}
BuildMatrix(matrix, rows, k) ==
    IF k > Len(rows) THEN matrix
    ELSE BuildMatrix(MatrixPut(matrix, rows[k]), rows, k + 1)

\* what the matrix loop writes to the console: it has no console call
MatrixWarnings(rows) == <<>>

\* the inner mapLimit has resolved: build the matrix and return the item's
\* result, { ok: true, ..., matrix: Object.values(matrix), flatRows: results }
Aggregate ==
    /\ stage = "tasks"
    /\ poolState = "resolved"
    /\ result' = [ok |-> TRUE, error |-> "", flatRows |-> FlatRows(out),
                   matrix |-> BuildMatrix(<<>>, FlatRows(out), 1),
                   warnings |-> MatrixWarnings(FlatRows(out))]
    /\ stage' = "done"
    /\ UNCHANGED <<product, disc>>
    /\ UNCHANGED poolVars
    /\ UNCHANGED fetchVars
    /\ UNCHANGED batchVars

\* ---- the batch drivers ---------------------------------------------------

MinOfSecond(a, b) == b

Min(a, b) == IF a <= b THEN a ELSE b

\* DEFAULTS.concurrency
Concurrency == 6

\* extractPidFromUrl(url): the id in front of .html, or null (here "")
ExtractPidFromUrl(url) == IF url = "/shop/35S5S2ZC7B.html" THEN "35S5S2ZC7B" ELSE ""

\* jobs.filter((j) => j.pid), as the positions of the rows in the input
ValidJobs(inp) ==
    SelectSeq([k \in 1..Len(inp) |-> k],
              LAMBDA k : ExtractPidFromUrl(inp[k].url) # "")

\* jobs.filter((j) => !j.pid)
InvalidJobs(inp) ==
    SelectSeq([k \in 1..Len(inp) |-> k],
              LAMBDA k : ExtractPidFromUrl(inp[k].url) = "")

\* extractOneProduct of one job: where it stands, whether discovery has run,
\* whether it gave a color, colors.length * sizes.length, the number of tasks
\* generated, whether a variation query has been issued, and the numbers of
\* tasks its inner pool has dispatched and of those that have settled
NoPipe == [pc |-> "idle", discovered |-> FALSE, hasColors |-> FALSE,
           combos |-> 0, tasks |-> 0, fetched |-> FALSE,
           dispatched |-> 0, settled |-> 0]

NoAcc == [products |-> <<>>, rows |-> <<>>]

\* one flat row of item k: its combination index and whether its fetch succeeded
Row(k, i, ok) == [item |-> k, index |-> i, ok |-> ok]

\* the flat rows of item k with n combinations of which those in failed failed
Rows(k, n, failed) == [i \in 1..n |-> Row(k, i, i \notin failed)]

\* what an extraction returns: { ok: true, ..., flatRows: results };
\* collected is the number of rows the extraction had in its list when it ended
OkResult(k, rows) ==
    [item |-> k, ok |-> TRUE, error |-> "", flatRows |-> rows,
     collected |-> Len(rows)]

\* the error record made from an exception, or returned when no color is found
ErrResult(k, msg) ==
    [item |-> k, ok |-> FALSE, error |-> msg, flatRows |-> <<>>,
     collected |-> 0]

\* every job that has just been dispatched runs extractOneProduct up to its
\* first await, the base query
StartPipes(newTask, pp) ==
    [j \in DOMAIN pp |->
        IF newTask[j] = "inflight" /\ pp[j].pc = "idle"
        THEN [pp[j] EXCEPT !.pc = "base"] ELSE pp[j]]

WorkerOf(j) ==
    CHOOSE w \in DOMAIN workers : workers[w].pc = "await" /\ workers[w].my = j

NoColorsNever(nc) == FALSE

\* if (!colors.length)
NoColors(nc) == nc = 0

\* extractOneProduct of job j is suspended (rec) or has returned or thrown
\* (value): what the outer mapper does with it
Suspend(rec) == [done |-> FALSE, rec |-> rec, value |-> Hole]
Return(rec, value) == [done |-> TRUE, rec |-> rec, value |-> value]

\* from the tasks loops on: with no task the inner pool resolves in the same
\* turn and the item returns without rows, otherwise the inner pool dispatches
\* its first tasks and the item waits for it
CallInnerPool(rec, k, n) ==
    IF n = 0
    THEN Return([rec EXCEPT !.pc = "returned"], OkResult(k, <<>>))
    ELSE Suspend([rec EXCEPT !.pc = "pool", !.tasks = n,
                             !.fetched = Min(NumWorkers(concurrency), n) > 0,
                             !.dispatched = Min(NumWorkers(concurrency), n)])

\* from the base response on: discovery, the check of colors, the fallback
\* query for a missing name
AfterBase(rec, k, nc, ns, named) ==
    LET r1 == [rec EXCEPT !.discovered = TRUE, !.hasColors = nc > 0,
                          !.combos = nc * ns]
    IN IF NoColors(nc)
       THEN Return([r1 EXCEPT !.pc = "nocolors"],
                   ErrResult(k, "Could not extract colors"))
       ELSE IF ~named
       THEN Suspend([r1 EXCEPT !.pc = "fallback", !.fetched = TRUE])
       ELSE CallInnerPool(r1, k, nc * ns)

SummaryNoCount(r) ==
    [item |-> r.item, ok |-> r.ok, error |-> r.error, count |-> 0]

\* the entry of the structured sink for one item
Summary(r) ==
    [item |-> r.item, ok |-> r.ok, error |-> r.error, count |-> Len(r.flatRows)]

RECURSIVE PushFlatRowsOkOnly(_, _, _)
PushFlatRowsOkOnly(rows, ps, k) ==
    IF k > Len(ps) THEN rows
    ELSE PushFlatRowsOkOnly(rows \o SelectSeq(ps[k].flatRows, LAMBDA r : r.ok),
                            ps, k + 1)

RECURSIVE PushFlatRows(_, _, _)
\* if (p?.flatRows?.length) bulkFlatRows.push(...p.flatRows), for p of processed
PushFlatRows(rows, ps, k) ==
    IF k > Len(ps) THEN rows
    ELSE PushFlatRows(rows \o ps[k].flatRows, ps, k + 1)

\* the loop over processed: bulk and bulkFlatRows
BulkLists(o) ==
    [products |-> FlatRows(o), rows |-> PushFlatRows(<<>>, FlatRows(o), 1)]

\* the continuation of main once the outer pool has resolved, run in the
\* turn of the last mapper's return: the lists are built and bulk.json is
\* written
BulkWriteJson ==
    IF poolState' = "resolved"
    THEN /\ acc' = BulkLists(out')
         /\ jsonSink' = [k \in 1..Len(acc'.products) |-> Summary(acc'.products[k])]
         /\ phase' = "csv"
    ELSE /\ phase' = "pool"
         /\ UNCHANGED <<acc, jsonSink>>

\* the outer mapper: try { return await extractOneProduct(...) } catch (e)
\* { return { ok: false, ..., error } }, and the worker that awaits it
PipeStep(j, r) ==
    IF r.done
    THEN /\ WorkerResume(WorkerOf(j), r.value)
         /\ pipe' = StartPipes(task', [pipe EXCEPT ![j] = r.rec])
         /\ BulkWriteJson
    ELSE /\ pipe' = [pipe EXCEPT ![j] = r.rec]
         /\ UNCHANGED poolVars
         /\ UNCHANGED <<phase, acc, jsonSink>>

BulkFrame ==
    /\ UNCHANGED <<driver, input, pos, results, csvSink, skipped, running>>
    /\ UNCHANGED fetchVars
    /\ UNCHANGED itemVars
    /\ UNCHANGED envVars

InPool(j) ==
    /\ running
    /\ driver = "bulk"
    /\ phase = "pool"
    /\ j \in DOMAIN pipe

\* main of the bulk driver up to the lists of jobs
BuildJobs ==
    /\ running
    /\ driver = "bulk"
    /\ phase = "start"
    /\ IF Len(input) = 0
       THEN phase' = "exit" /\ UNCHANGED <<items, skipped, pipe>>
       ELSE /\ phase' = "jobs"
            /\ items' = ToArray(ValidJobs(input))
            /\ pipe' = [j \in DOMAIN items' |-> NoPipe]
            /\ skipped' = Len(InvalidJobs(input))
    /\ UNCHANGED <<limit, idx, out, workers, task, poolState>>
    /\ UNCHANGED <<driver, input, pos, results, acc, jsonSink, csvSink, running>>
    /\ UNCHANGED fetchVars
    /\ UNCHANGED itemVars
    /\ UNCHANGED envVars

\* const processed = await mapLimit(validJobs, args.productConcurrency, ...)
BulkMapLimit ==
    /\ running
    /\ driver = "bulk"
    /\ phase = "jobs"
    /\ MapLimitCall
    /\ pipe' = StartPipes(task', pipe)
    /\ BulkWriteJson
    /\ UNCHANGED <<driver, input, pos, results, csvSink, skipped, running>>
    /\ UNCHANGED fetchVars
    /\ UNCHANGED itemVars
    /\ UNCHANGED envVars

\* the base query of job j fails after its retries
BaseFetchThrows(j) ==
    /\ InPool(j)
    /\ pipe[j].pc = "base"
    /\ PipeStep(j, Return([pipe[j] EXCEPT !.pc = "threw"],
                          ErrResult(items[j], "fetch failed")))
    /\ BulkFrame

\* the base query of job j answers with nc usable colors and ns sizes
BaseFetchReturns(j, nc, ns, named) ==
    /\ InPool(j)
    /\ pipe[j].pc = "base"
    /\ PipeStep(j, AfterBase(pipe[j], items[j], nc, ns, named))
    /\ BulkFrame

\* the fallback query for the name fails after its retries
FallbackFetchThrows(j) ==
    /\ InPool(j)
    /\ pipe[j].pc = "fallback"
    /\ PipeStep(j, Return([pipe[j] EXCEPT !.pc = "threw"],
                          ErrResult(items[j], "fetch failed")))
    /\ BulkFrame

FallbackFetchReturns(j) ==
    /\ InPool(j)
    /\ pipe[j].pc = "fallback"
    /\ PipeStep(j, CallInnerPool(pipe[j], items[j], pipe[j].combos))
    /\ BulkFrame

\* the inner pool of job j resolves, the first b combinations having given
\* success rows and the others error rows: the matrix is built and the item
\* returns
InnerPoolResolves(j, b) ==
    /\ InPool(j)
    /\ pipe[j].pc = "pool"
    /\ b <= pipe[j].tasks
    /\ LET n == pipe[j].tasks
           failed == (b + 1)..n
       IN PipeStep(j, Return([pipe[j] EXCEPT !.pc = "returned",
                                             !.dispatched = n, !.settled = n],
                             OkResult(items[j], Rows(items[j], n, failed))))
    /\ BulkFrame

\* a combination fetch of job j other than the last one to settle is over:
\* the worker of the inner pool stores its row and dispatches the next
\* undispatched task, if there is one
InnerFetchSettles(j) ==
    /\ InPool(j)
    /\ pipe[j].pc = "pool"
    /\ pipe[j].settled < pipe[j].dispatched
    /\ pipe[j].settled + 1 < pipe[j].tasks
    /\ pipe' = [pipe EXCEPT ![j].settled = @ + 1,
                            ![j].dispatched = Min(pipe[j].tasks, @ + 1)]
    /\ UNCHANGED poolVars
    /\ UNCHANGED <<phase, acc, jsonSink>>
    /\ BulkFrame

\* the last combination fetch of job j to settle is over: the inner pool
\* resolves
LastFetchSettles(j, b) ==
    /\ j \in DOMAIN pipe
    /\ pipe[j].settled + 1 = pipe[j].tasks
    /\ InnerPoolResolves(j, b)

\* the header line of a tabular file, headers.join(","): a line like the
\* data rows, of no item
CsvHeader == [item |-> 0, index |-> 0, ok |-> TRUE]

\* the data rows of the tabular output file
DataRows == SelectSeq(csvSink, LAMBDA l : l # CsvHeader)

EnsureCsvHeaderAlways(sink) == <<CsvHeader>>

\* ensureCsvHeader(csvPath): a file that exists with a size above 0 is left
\* as it is, otherwise the file is written with the header line alone
EnsureCsvHeader(sink) == IF Len(sink) > 0 THEN sink ELSE <<CsvHeader>>

\* fs.writeFileSync(csvPath, ...): the combined CSV of the bulk and the
\* combined driver, the header and the data rows
WriteCsv ==
    /\ running
    /\ phase = "csv"
    /\ csvSink' = <<CsvHeader>> \o acc.rows
    /\ phase' = "done"
    /\ UNCHANGED <<driver, input, pos, pipe, results, acc, jsonSink, skipped, running>>
    /\ UNCHANGED poolVars
    /\ UNCHANGED fetchVars
    /\ UNCHANGED itemVars
    /\ UNCHANGED envVars

SeqFrame ==
    /\ UNCHANGED <<driver, input, pipe, skipped, running>>
    /\ UNCHANGED poolVars
    /\ UNCHANGED fetchVars
    /\ UNCHANGED itemVars
    /\ UNCHANGED envVars

Sequential == running /\ driver \in {"incremental", "combined"}

\* main of a sequential driver up to the first extraction: process.exit(1)
\* on an input without rows; the incremental driver then prepares its output
\* files, ensureCsvHeader(csvOut) and an empty JSONL file if there is none
SeqStart ==
    /\ Sequential
    /\ phase = "start"
    /\ phase' = IF Len(input) = 0 THEN "exit" ELSE "next"
    /\ csvSink' = IF Len(input) > 0 /\ driver = "incremental"
                  THEN EnsureCsvHeader(csvSink) ELSE csvSink
    /\ UNCHANGED <<pos, results, acc, jsonSink>>
    /\ SeqFrame

AdvanceBreaks(after) == phase' = after /\ pos' = pos

\* the end of the loop body: back to the top of the loop with rows left,
\* otherwise on to what follows the loop
Advance(after) ==
    /\ phase' = IF pos < Len(input) THEN "next" ELSE after
    /\ pos' = pos

\* the top of the loop: the next row is taken and its extraction starts
LoopTop ==
    /\ Sequential
    /\ phase = "next"
    /\ pos' = pos + 1
    /\ phase' = "extract"
    /\ UNCHANGED <<results, acc, jsonSink, csvSink>>
    /\ SeqFrame

AppendLineOverwrite(sink, line) == <<line>>

\* appendLine(filePath, line): fs.appendFileSync(filePath, line + "\n")
AppendLine(sink, line) == Append(sink, line)

RowsDoneAfterFirst(w, rows) == w >= Min(1, Len(rows))

\* for (const v of variantRows): w rows written, is the loop over
RowsDone(w, rows) == w >= Len(rows)

\* the extraction of the row in hand returns n rows
ExtractReturns(n) ==
    /\ Sequential
    /\ phase = "extract"
    /\ LET r == OkResult(pos, Rows(pos, n, {}))
       IN /\ results' = Append(results, r)
          /\ IF driver = "incremental"
             THEN /\ phase' = "summary"
                  /\ UNCHANGED <<pos, acc>>
             ELSE /\ acc' = [products |-> Append(acc.products, r),
                             rows |-> acc.rows \o r.flatRows]
                  /\ Advance("json")
    /\ UNCHANGED <<jsonSink, csvSink>>
    /\ SeqFrame

ExtractThrowsKeepsRows(n) ==
    /\ Sequential
    /\ phase = "extract"
    /\ results' = Append(results, [ErrResult(pos, "failed") EXCEPT
                                       !.collected = n,
                                       !.flatRows = Rows(pos, n, {})])
    /\ IF driver = "incremental"
       THEN /\ phase' = "summary"
            /\ UNCHANGED <<pos, acc>>
       ELSE /\ acc' = [acc EXCEPT !.rows = Append(@, Row(pos, 0, FALSE))]
            /\ Advance("json")
    /\ UNCHANGED <<jsonSink, csvSink>>
    /\ SeqFrame

\* the extraction of the row in hand throws with n rows in its local list,
\* which goes with its frame: catch (e) { ... } has the exception only
ExtractThrows(n) ==
    /\ Sequential
    /\ phase = "extract"
    /\ results' = Append(results, [ErrResult(pos, "failed") EXCEPT !.collected = n])
    /\ IF driver = "incremental"
       THEN /\ phase' = "errsummary"
            /\ UNCHANGED <<pos, acc>>
       ELSE /\ acc' = [acc EXCEPT !.rows = Append(@, Row(pos, 0, FALSE))]
            /\ Advance("json")
    /\ UNCHANGED <<jsonSink, csvSink>>
    /\ SeqFrame

\* appendLine(jsonlOut, JSON.stringify(productSummary))
AppendSummary ==
    /\ Sequential
    /\ phase = "summary"
    /\ jsonSink' = AppendLine(jsonSink, Summary(results[pos]))
    /\ IF RowsDone(0, results[pos].flatRows)
       THEN Advance("done")
       ELSE phase' = "rows" /\ pos' = pos
    /\ UNCHANGED <<results, acc, csvSink>>
    /\ SeqFrame

\* the rows of item k already in the tabular sink
Written(k) == Cardinality({i \in 1..Len(csvSink) : csvSink[i].item = k})

\* appendLine(csvOut, line) for the next row of variantRows
AppendRow ==
    /\ Sequential
    /\ phase = "rows"
    /\ csvSink' = AppendLine(csvSink, results[pos].flatRows[Written(pos) + 1])
    /\ IF RowsDone(Written(pos) + 1, results[pos].flatRows)
       THEN Advance("done")
       ELSE phase' = "rows" /\ pos' = pos
    /\ UNCHANGED <<results, acc, jsonSink>>
    /\ SeqFrame

\* appendLine(jsonlOut, JSON.stringify(errSummary))
AppendErrSummary ==
    /\ Sequential
    /\ phase = "errsummary"
    /\ jsonSink' = AppendLine(jsonSink, Summary(results[pos]))
    /\ Advance("done")
    /\ UNCHANGED <<results, acc, csvSink>>
    /\ SeqFrame

\* fs.writeFileSync(jsonPath, JSON.stringify(allProducts, null, 2))
CombinedWriteJson ==
    /\ Sequential
    /\ phase = "json"
    /\ jsonSink' = [k \in 1..Len(acc.products) |-> Summary(acc.products[k])]
    /\ phase' = "csv"
    /\ UNCHANGED <<pos, results, acc, csvSink>>
    /\ SeqFrame

\* the process is killed
Terminate ==
    /\ running
    /\ phase \notin {"none", "done", "exit"}
    /\ running' = FALSE
    /\ UNCHANGED <<driver, input, phase, pos, pipe, results, acc, jsonSink,
                   csvSink, skipped>>
    /\ UNCHANGED poolVars
    /\ UNCHANGED fetchVars
    /\ UNCHANGED itemVars
    /\ UNCHANGED envVars

\* ---- the readers of the input file ------------------------------------------

\* the header line sku,url
HeaderLine == <<"s", "k", "u", ",", "u", "r", "l">>

RECURSIVE TrimLeft(_)
TrimLeft(str) ==
    IF str # <<>> /\ Head(str) = " " THEN TrimLeft(Tail(str)) ELSE str

RECURSIVE TrimRight(_)
TrimRight(str) ==
    IF str # <<>> /\ str[Len(str)] = " "
    THEN TrimRight(SubSeq(str, 1, Len(str) - 1)) ELSE str

\* String.prototype.trim
Trim(str) == TrimLeft(TrimRight(str))

RECURSIVE SplitFrom(_, _, _, _)
SplitFrom(str, i, cur, parts) ==
    IF i > Len(str) THEN Append(parts, cur)
    ELSE IF str[i] = "," THEN SplitFrom(str, i + 1, <<>>, Append(parts, cur))
    ELSE SplitFrom(str, i + 1, Append(cur, str[i]), parts)

\* line.split(",")
Split(str) == SplitFrom(str, 1, <<>>, <<>>)

RECURSIVE JoinNoSeparator(_)
JoinNoSeparator(parts) ==
    IF parts = <<>> THEN <<>>
    ELSE Head(parts) \o JoinNoSeparator(Tail(parts))

RECURSIVE Join(_)
\* parts.join(",")
Join(parts) ==
    IF parts = <<>> THEN <<>>
    ELSE IF Len(parts) = 1 THEN Head(parts)
    ELSE Head(parts) \o <<",">> \o Join(Tail(parts))

\* parts[i] || "" and cols[i] ?? "", for an index i counted from 0
Field(parts, i) == IF i + 1 \in DOMAIN parts THEN parts[i + 1] ELSE <<>>

\* header.indexOf(name), -1 when there is none
IndexOf(header, name) ==
    IF \E i \in DOMAIN header : header[i] = name
    THEN (CHOOSE i \in DOMAIN header :
             header[i] = name /\ \A j \in DOMAIN header : header[j] = name => i <= j) - 1
    ELSE -1

RECURSIVE SplitCSVFrom(_, _, _, _, _)
\* the loop of splitCSVLine: a quote toggles inQuotes, or gives one quote
\* when doubled inside quotes; a comma outside quotes ends the field
SplitCSVFrom(line, i, cur, inQuotes, cols) ==
    IF i > Len(line) THEN Append(cols, cur)
    ELSE IF line[i] = "\""
         THEN IF inQuotes /\ i + 1 <= Len(line) /\ line[i + 1] = "\""
              THEN SplitCSVFrom(line, i + 2, Append(cur, "\""), inQuotes, cols)
              ELSE SplitCSVFrom(line, i + 1, cur, ~inQuotes, cols)
    ELSE IF line[i] = "," /\ ~inQuotes
         THEN SplitCSVFrom(line, i + 1, <<>>, inQuotes, Append(cols, cur))
    ELSE SplitCSVFrom(line, i + 1, Append(cur, line[i]), inQuotes, cols)

\* splitCSVLine(line)
SplitCSVLine(line) == SplitCSVFrom(line, 1, <<>>, FALSE, <<>>)

RECURSIVE TrimFile(_)
\* fs.readFileSync(...).trim(), on the lines of a file whose first line does
\* not start with a blank: the blank lines at the end go and the last line
\* loses the blanks at its end
TrimFile(lines) ==
    IF lines = <<>> THEN <<>>
    ELSE LET last == TrimRight(lines[Len(lines)])
             front == SubSeq(lines, 1, Len(lines) - 1)
         IN IF last = <<>> THEN TrimFile(front) ELSE Append(front, last)

\* if (!sku || !url) continue; rows.push({ sku, url })
PushRow(rows, sku, url) ==
    IF sku = <<>> \/ url = <<>> THEN rows
    ELSE Append(rows, [sku |-> sku, url |-> url])

RECURSIVE ReadInputLines(_, _, _)
\* the loop of readInputCSV (part_001) from line k on
ReadInputLines(lines, k, rows) ==
    IF k > Len(lines) THEN rows
    ELSE IF Trim(lines[k]) = <<>> THEN ReadInputLines(lines, k + 1, rows)
    ELSE LET parts == Split(lines[k])
             sku == Trim(Field(parts, 0))
             url == Trim(Join(Tail(parts)))
         IN ReadInputLines(lines, k + 1, PushRow(rows, sku, url))

\* readInputCSV(filePath) of the incremental driver
ReadInputCSV(text) ==
    LET lines == TrimFile(text)
    IN IF lines = <<>> THEN <<>> ELSE ReadInputLines(lines, 2, <<>>)

RECURSIVE ParseInputLines(_, _, _, _, _)
\* the loop of parseInputCSV (part_004) from line k on
ParseInputLines(lines, k, skuIdx, urlIdx, rows) ==
    IF k > Len(lines) THEN rows
    ELSE LET line == Trim(lines[k])
         IN IF line = <<>>
            THEN ParseInputLines(lines, k + 1, skuIdx, urlIdx, rows)
            ELSE LET parts == Split(line)
                     sku == Trim(Field(parts, skuIdx))
                     url == Trim(Field(parts, urlIdx))
                 IN ParseInputLines(lines, k + 1, skuIdx, urlIdx,
                                    PushRow(rows, sku, url))

\* header.map((h) => h.trim())
TrimAll(parts) == [i \in DOMAIN parts |-> Trim(parts[i])]

\* parseInputCSV(filePath) of the combined driver; the header of every file
\* modelled has both columns, so that its throw is not reached
ParseInputCSV(text) ==
    LET lines == TrimFile(text)
    IN IF lines = <<>> THEN <<>>
       ELSE LET header == TrimAll(Split(lines[1]))
            IN ParseInputLines(lines, 2, IndexOf(header, <<"s", "k", "u">>),
                               IndexOf(header, <<"u", "r", "l">>), <<>>)

RECURSIVE ParseSimpleLines(_, _, _, _, _)
\* the loop of parseSimpleCSV (part_002) from line k on
ParseSimpleLines(lines, k, skuIdx, urlIdx, rows) ==
    IF k > Len(lines) THEN rows
    ELSE LET cols == SplitCSVLine(lines[k])
             sku == Trim(Field(cols, skuIdx))
             url == Trim(Field(cols, urlIdx))
         IN ParseSimpleLines(lines, k + 1, skuIdx, urlIdx,
                             PushRow(rows, sku, url))

\* parseSimpleCSV(text) of the bulk driver; the header of every file modelled
\* has both columns, so that its throw is not reached
ParseSimpleCSV(text) ==
    LET lines == SelectSeq(text, LAMBDA l : Len(Trim(l)) > 0)
    IN IF lines = <<>> THEN <<>>
       ELSE LET header == TrimAll(SplitCSVLine(lines[1]))
            IN ParseSimpleLines(lines, 2, IndexOf(header, <<"s", "k", "u">>),
                                IndexOf(header, <<"u", "r", "l">>), <<>>)

\* the driver reads its input file
ReadInput ==
    /\ phase = "file"
    /\ input' = CASE driver = "incremental" -> ReadInputCSV(csvText)
                  [] driver = "combined" -> ParseInputCSV(csvText)
                  [] driver = "bulk" -> ParseSimpleCSV(csvText)
    /\ phase' = "start"
    /\ UNCHANGED <<driver, pos, pipe, results, acc, jsonSink, csvSink, skipped,
                   running>>
    /\ UNCHANGED envVars
    /\ UNCHANGED poolVars
    /\ UNCHANGED fetchVars
    /\ UNCHANGED itemVars

\* ---- specifications ------------------------------------------------------

FetchIdle ==
    /\ retries = 0
    /\ retryDelayMs = 0
    /\ fj = <<>>
    /\ aborted = <<>>

PoolIdle ==
    /\ idx = 0
    /\ out = <<>>
    /\ workers = <<>>
    /\ task = <<>>
    /\ poolState = "idle"

ItemIdle ==
    /\ product = [color |-> NoAttr, size |-> NoAttr]
    /\ disc = NoDisc
    /\ stage = "none"
    /\ result = NoResult

\* the default inner limit, no request to stop, no input text
EnvIdle ==
    /\ concurrency = Concurrency
    /\ cancelled = FALSE
    /\ csvText = <<>>

BatchIdle ==
    /\ EnvIdle
    /\ driver = "none"
    /\ input = <<>>
    /\ phase = "none"
    /\ pos = 0
    /\ pipe = <<>>
    /\ results = <<>>
    /\ acc = NoAcc
    /\ jsonSink = <<>>
    /\ csvSink = <<>>
    /\ skipped = 0
    /\ running = TRUE

InitPool ==
    /\ \E n \in 0..MaxItems : items \in [0..(n - 1) -> ItemValues]
    /\ limit \in (-1)..MaxLimit
    /\ PoolIdle
    /\ FetchIdle
    /\ ItemIdle
    /\ BatchIdle

NextPool ==
    \/ MapLimitCall /\ UNCHANGED fetchVars /\ UNCHANGED restVars
    \/ \E w \in DOMAIN workers : MapperResolve(w) /\ UNCHANGED fetchVars /\ UNCHANGED restVars
    \/ \E w \in DOMAIN workers : MapperReject(w) /\ UNCHANGED fetchVars /\ UNCHANGED restVars

SpecPool == InitPool /\ [][NextPool]_vars

\* the caller of a running pool asks it to stop; mapLimit(items, limit,
\* mapper) takes no signal and its worker loop tests only idx against
\* items.length, so the request changes nothing inside the pool
RequestCancel ==
    /\ poolState = "pending"
    /\ ~cancelled
    /\ cancelled' = TRUE
    /\ UNCHANGED <<concurrency, csvText>>
    /\ UNCHANGED <<driver, input, phase, pos, pipe, results, acc,
                   jsonSink, csvSink, skipped, running>>
    /\ UNCHANGED poolVars
    /\ UNCHANGED fetchVars
    /\ UNCHANGED itemVars

NextCancel ==
    \/ NextPool
    \/ RequestCancel

\* the generic pool with a caller that may ask it to stop
SpecCancel == InitPool /\ [][NextCancel]_vars

InitFetch ==
    /\ items = <<>>
    /\ limit = 1
    /\ PoolIdle
    /\ retries \in 0..MaxRetries
    /\ retryDelayMs \in 0..MaxDelay
    /\ fj = [c \in {0} |-> FjNew(TRUE)]
    /\ aborted = [c \in {0} |-> FALSE]
    /\ ItemIdle
    /\ BatchIdle

NextFetch ==
    \/ FetchJsonStart(0) /\ UNCHANGED restVars
    \/ FetchNetworkError(0) /\ UNCHANGED restVars
    \/ \E status \in Statuses : FetchResponse(0, status) /\ UNCHANGED restVars
    \/ ReadJsonValid(0) /\ UNCHANGED restVars
    \/ ReadJsonMalformed(0) /\ UNCHANGED restVars
    \/ ReadTextDone(0) /\ UNCHANGED restVars
    \/ SleepDone(0) /\ UNCHANGED restVars
    \/ TimerFire(0) /\ UNCHANGED restVars

SpecFetch == InitFetch /\ [][NextFetch]_vars

\* a base product that lists nc selectable colors and ns selectable sizes;
\* with ns = 0 its size attribute lists one value that is not selectable
ItemProduct(nc, ns) ==
    [color |-> [present |-> TRUE,
                values |-> [k \in 1..nc |->
                               [id |-> ColorIds[k], selectable |-> TRUE]]],
     size |-> [present |-> TRUE,
               values |-> IF ns = 0
                          THEN <<[id |-> SizeIds[1], selectable |-> FALSE]>>
                          ELSE [k \in 1..ns |->
                                   [id |-> SizeIds[k], selectable |-> TRUE]]]]

ItemProducts ==
    UNION {{ItemProduct(nc, ns) :
               ns \in {m \in 0..MaxItemTasks : nc * m <= MaxItemTasks}} :
           nc \in 1..MaxItemTasks}

\* an item that has passed discovery and built its tasks; the retries are
\* tried on the items of one size
InitItem ==
    /\ product \in ItemProducts
    /\ disc = ExtractVariationAttributes(product)
    /\ stage = "tasks"
    /\ result = NoResult
    /\ items = ToArray(Tasks(disc.colors, disc.sizes))
    /\ limit \in 1..MaxLimit
    /\ PoolIdle
    /\ retries \in IF Len(disc.sizes) > 1 THEN {0} ELSE 0..MaxItemRetries
    /\ retryDelayMs = MaxDelay
    /\ fj = [c \in DOMAIN items |-> FjNew(FALSE)]
    /\ aborted = [c \in DOMAIN items |-> FALSE]
    /\ BatchIdle

NextItem ==
    \/ ItemMapLimitCall /\ UNCHANGED restVars
    \/ \E w \in DOMAIN workers : MapperReturn(w) /\ UNCHANGED restVars
    \/ \E c \in DOMAIN fj : FetchNetworkError(c) /\ UNCHANGED restVars
    \/ \E c \in DOMAIN fj : \E status \in Statuses : FetchResponse(c, status) /\ UNCHANGED restVars
    \/ \E c \in DOMAIN fj : ReadJsonValid(c) /\ UNCHANGED restVars
    \/ \E c \in DOMAIN fj : ReadJsonMalformed(c) /\ UNCHANGED restVars
    \/ \E c \in DOMAIN fj : ReadTextDone(c) /\ UNCHANGED restVars
    \/ \E c \in DOMAIN fj : SleepDone(c) /\ UNCHANGED restVars
    \/ \E c \in DOMAIN fj : TimerFire(c) /\ UNCHANGED restVars
    \/ Aggregate

SpecItem == InitItem /\ [][NextItem]_vars

\* the values of an attribute as the base response may list them: nothing
\* makes the ids of two values differ
RepeatableValues(ids, n) ==
    {[k \in 1..n |-> [id |-> f[k], selectable |-> TRUE]] : f \in [1..n -> ids]}

MatrixProducts ==
    UNION {UNION {{[color |-> [present |-> TRUE, values |-> cv],
                    size |-> [present |-> TRUE, values |-> sv]] :
                      cv \in RepeatableValues({ColorIds[1], ColorIds[2]}, nc),
                      sv \in RepeatableValues({SizeIds[1], SizeIds[2]}, ns)} :
                  ns \in {m \in 1..MaxItemTasks : nc * m <= MaxItemTasks}} :
           nc \in 1..MaxItemTasks}

\* an item whose base response may repeat a color id or a size id has passed
\* discovery and built its tasks; no retry
InitMatrix ==
    /\ product \in MatrixProducts
    /\ disc = ExtractVariationAttributes(product)
    /\ stage = "tasks"
    /\ result = NoResult
    /\ items = ToArray(Tasks(disc.colors, disc.sizes))
    /\ limit \in 1..MaxLimit
    /\ PoolIdle
    /\ retries = 0
    /\ retryDelayMs = MaxDelay
    /\ fj = [c \in DOMAIN items |-> FjNew(FALSE)]
    /\ aborted = [c \in DOMAIN items |-> FALSE]
    /\ BatchIdle

\* with no retry a mapper never sleeps
NextMatrix ==
    \/ ItemMapLimitCall /\ UNCHANGED restVars
    \/ \E w \in DOMAIN workers : MapperReturn(w) /\ UNCHANGED restVars
    \/ \E c \in DOMAIN fj : FetchNetworkError(c) /\ UNCHANGED restVars
    \/ \E c \in DOMAIN fj : \E status \in Statuses : FetchResponse(c, status) /\ UNCHANGED restVars
    \/ \E c \in DOMAIN fj : ReadJsonValid(c) /\ UNCHANGED restVars
    \/ \E c \in DOMAIN fj : ReadJsonMalformed(c) /\ UNCHANGED restVars
    \/ \E c \in DOMAIN fj : ReadTextDone(c) /\ UNCHANGED restVars
    \/ \E c \in DOMAIN fj : TimerFire(c) /\ UNCHANGED restVars
    \/ Aggregate

SpecMatrix == InitMatrix /\ [][NextMatrix]_vars

\* the values a variation attribute of a base response may list
RawValues(ids) == [id : ids, selectable : BOOLEAN]

RawAttrs(ids) ==
    {NoAttr} \cup
    {[present |-> TRUE, values |-> vs] :
        vs \in UNION {[1..n -> RawValues(ids)] : n \in 0..MaxValues}}

InitDiscovery ==
    /\ product \in [color : RawAttrs(ColorIdSet), size : RawAttrs(SizeIdSet)]
    /\ disc = NoDisc
    /\ stage = "base"
    /\ result = NoResult
    /\ items = <<>>
    /\ limit = 1
    /\ PoolIdle
    /\ FetchIdle
    /\ BatchIdle

NextDiscovery ==
    \/ Discover
    \/ BuildTasks

SpecDiscovery == InitDiscovery /\ [][NextDiscovery]_vars

\* the input files tried: up to MaxJobs rows; only the bulk driver resolves
\* an item id from the url
Inputs(d) ==
    UNION {{[k \in 1..n |-> [sku |-> k, url |-> us[k]]] :
               us \in [1..n -> IF d = "bulk" THEN Urls
                                ELSE {"/shop/35S5S2ZC7B.html"}]} :
           n \in 0..MaxJobs}

\* the (colors, sizes) counts a base response of a batch item may give
Counts ==
    {c \in (0..MaxBatchRows) \X (0..MaxBatchRows) :
        /\ c[1] * c[2] <= MaxBatchRows
        /\ c[1] = 0 => c[2] = 1}

InitBatch ==
    /\ driver \in Drivers
    /\ input \in Inputs(driver)
    /\ phase = "start"
    /\ pos = 0
    /\ pipe = <<>>
    /\ results = <<>>
    /\ acc = NoAcc
    /\ jsonSink = <<>>
    /\ csvSink = <<>>
    /\ skipped = 0
    /\ running = TRUE
    /\ items = <<>>
    /\ limit \in IF driver = "bulk" THEN 1..MaxLimit ELSE {1}
    /\ PoolIdle
    /\ FetchIdle
    /\ ItemIdle
    /\ EnvIdle

NextBatch ==
    \/ BuildJobs
    \/ BulkMapLimit
    \/ \E j \in DOMAIN pipe : BaseFetchThrows(j)
    \/ \E j \in DOMAIN pipe : \E c \in Counts : \E named \in BOOLEAN :
          BaseFetchReturns(j, c[1], c[2], named)
    \/ \E j \in DOMAIN pipe : FallbackFetchThrows(j)
    \/ \E j \in DOMAIN pipe : FallbackFetchReturns(j)
    \/ \E j \in DOMAIN pipe : \E b \in 0..MaxBatchRows : InnerPoolResolves(j, b)
    \/ WriteCsv
    \/ SeqStart
    \/ LoopTop
    \/ \E n \in 0..MaxBatchRows : ExtractReturns(n)
    \/ \E n \in 0..MaxBatchRows : ExtractThrows(n)
    \/ AppendSummary
    \/ AppendRow
    \/ AppendErrSummary
    \/ CombinedWriteJson
    \/ Terminate

SpecBatch == InitBatch /\ [][NextBatch]_vars

\* the lines a data line of the input file may be
Lines == UNION {[1..n -> Chars] : n \in 0..MaxLineLen}

\* a driver in front of an input file of the header and one data line
InitReader ==
    /\ driver \in Drivers
    /\ csvText \in {<<HeaderLine, line>> : line \in Lines}
    /\ input = <<>>
    /\ phase = "file"
    /\ pos = 0
    /\ pipe = <<>>
    /\ results = <<>>
    /\ acc = NoAcc
    /\ jsonSink = <<>>
    /\ csvSink = <<>>
    /\ skipped = 0
    /\ running = TRUE
    /\ concurrency = Concurrency
    /\ cancelled = FALSE
    /\ items = <<>>
    /\ limit = 1
    /\ PoolIdle
    /\ FetchIdle
    /\ ItemIdle

NextReader == ReadInput

SpecReader == InitReader /\ [][NextReader]_vars

\* the output files an earlier run of the incremental driver has left, its
\* entries under the item number -1: no file, the header alone, or a summary
\* line and the header with the rows written before the run ended
EarlierRuns ==
    {[json |-> <<>>, csv |-> <<>>], [json |-> <<>>, csv |-> <<CsvHeader>>],
     [json |-> <<Summary(ErrResult(-1, "failed"))>>, csv |-> <<CsvHeader>>]}
    \cup UNION {{[json |-> <<Summary(OkResult(-1, Rows(-1, n, {})))>>,
                  csv |-> <<CsvHeader>> \o SubSeq(Rows(-1, n, {}), 1, w)] :
                     w \in 0..n} : n \in 0..MaxBatchRows}

\* the incremental driver started where an earlier run may have left files
InitRestart ==
    /\ driver = "incremental"
    /\ input \in Inputs(driver)
    /\ phase = "start"
    /\ pos = 0
    /\ pipe = <<>>
    /\ results = <<>>
    /\ acc = NoAcc
    /\ \E e \in EarlierRuns : jsonSink = e.json /\ csvSink = e.csv
    /\ skipped = 0
    /\ running = TRUE
    /\ items = <<>>
    /\ limit = 1
    /\ PoolIdle
    /\ FetchIdle
    /\ ItemIdle
    /\ EnvIdle

NextRestart ==
    \/ SeqStart
    \/ LoopTop
    \/ \E n \in 0..MaxBatchRows : ExtractReturns(n)
    \/ \E n \in 0..MaxBatchRows : ExtractThrows(n)
    \/ AppendSummary
    \/ AppendRow
    \/ AppendErrSummary
    \/ Terminate

SpecRestart == InitRestart /\ [][NextRestart]_vars

\* the bulk driver with both limits taken from the command line
InitNested ==
    /\ driver = "bulk"
    /\ input \in Inputs(driver)
    /\ phase = "start"
    /\ pos = 0
    /\ pipe = <<>>
    /\ results = <<>>
    /\ acc = NoAcc
    /\ jsonSink = <<>>
    /\ csvSink = <<>>
    /\ skipped = 0
    /\ running = TRUE
    /\ items = <<>>
    /\ limit \in 0..MaxLimit
    /\ PoolIdle
    /\ FetchIdle
    /\ ItemIdle
    /\ concurrency \in 0..MaxLimit
    /\ cancelled = FALSE
    /\ csvText = <<>>

\* the bulk driver with the combination fetches of every item settling one
\* by one
NextNested ==
    \/ BuildJobs
    \/ BulkMapLimit
    \/ \E j \in DOMAIN pipe : BaseFetchThrows(j)
    \/ \E j \in DOMAIN pipe : \E c \in Counts : \E named \in BOOLEAN :
          BaseFetchReturns(j, c[1], c[2], named)
    \/ \E j \in DOMAIN pipe : FallbackFetchThrows(j)
    \/ \E j \in DOMAIN pipe : FallbackFetchReturns(j)
    \/ \E j \in DOMAIN pipe : InnerFetchSettles(j)
    \/ \E j \in DOMAIN pipe : \E b \in 0..MaxBatchRows : LastFetchSettles(j, b)
    \/ WriteCsv

SpecNested == InitNested /\ [][NextNested]_vars

\* ---- properties -----------------------------------------------------------

InFlight == {i \in DOMAIN task : task[i] = "inflight"}

Settled(i) == task[i] \in {"resolved", "rejected"}

\* an attempt succeeded: a response with a success status and a well-formed body
Success(o) ==
    o.kind = "resp" /\ o.status \in 200..299 /\ o.body = "valid"

\* a success-status response whose body is not well-formed JSON
Malformed(o) ==
    o.kind = "resp" /\ o.status \in 200..299 /\ o.body = "malformed"

\* the attempt was cut short by an abort of the signal
SawAbort(o) == o.kind \in {"abort", "stale"} \/ o.body = "aborted"

\* the error an attempt with outcome o ends in
ErrorOf(o) ==
    IF o.kind = "net" THEN "NetworkError"
    ELSE IF o.kind \in {"abort", "stale"} THEN "AbortError"
    ELSE IF ~(o.status \in 200..299) THEN "HttpError"
    ELSE IF o.body = "malformed" THEN "SyntaxError"
    ELSE IF o.body = "aborted" THEN "AbortError"
    ELSE "none"

Failed(rec) == {k \in 1..Len(rec.resp) : ~Success(rec.resp[k])}

\* C1: with limit K >= 1, at most K mapper invocations have started and not
\* yet settled, in every reachable state of the pool.
C1_InFlightAtMostLimit ==
    limit >= 1 => Cardinality(InFlight) <= limit

\* the pool is at its ceiling after a first completion, with work left
C1_Witness ==
    /\ limit = 2
    /\ Cardinality(InFlight) = 2
    /\ \E i \in DOMAIN task : task[i] = "resolved"

\* C2: when every mapper call resolves, mapLimit returns exactly N entries
\* and entry i is the value of mapper(items[i], i).
C2_ResultsIndexed ==
    /\ (poolState # "idle" /\ \A i \in DOMAIN task : task[i] = "resolved")
          => poolState = "resolved"
    /\ poolState = "resolved" =>
          /\ DOMAIN out = 0..(N - 1)
          /\ \A i \in DOMAIN items : out[i] = MapperValue(items[i], i)

C2_Witness ==
    /\ poolState = "resolved"
    /\ N >= 3
    /\ limit = 2
    /\ items[0] # items[1]

\* C3: the pool's promise settles only when every task has settled, by
\* success or by failure: then no task is in flight and none is undispatched.
C3_SettlesAfterAllTasks ==
    poolState \in {"resolved", "rejected"} =>
        \A i \in DOMAIN task : Settled(i)

\* C4: a success on attempt k <= R+1 makes exactly k calls, returns that
\* attempt's payload, and no call follows it; fetchJson returns only from a
\* successful attempt, every earlier attempt having failed.
C4_SuccessStopsAtK ==
    LET r == fj[0]
    IN /\ \A k \in 1..Len(r.resp) :
            Success(r.resp[k]) =>
                /\ k = Len(r.resp)
                /\ k <= retries + 1
                /\ r.calls = k
                /\ r.pc = "returned"
                /\ r.result = k
       /\ r.pc = "returned" =>
            /\ r.calls = Len(r.resp)
            /\ Success(r.resp[r.calls])

\* attempts 1..R fail, by a network error and by a non-success status, and
\* attempt R+1 succeeds
C4_Witness ==
    LET r == fj[0]
    IN /\ retries >= 2
       /\ r.pc = "returned"
       /\ r.calls = retries + 1
       /\ r.resp[1].kind = "net"
       /\ r.resp[2].kind = "resp" /\ r.resp[2].status = 404

\* C5: if all R+1 attempts fail, fetchJson has made exactly R+1 calls and
\* throws the error of the last attempt; it never makes a call R+2.
C5_ExhaustedThrows ==
    LET r == fj[0]
    IN /\ r.calls <= retries + 1
       /\ r.pc = "thrown" =>
            /\ r.calls = retries + 1
            /\ Len(r.resp) = retries + 1
            /\ Failed(r) = 1..(retries + 1)
            /\ r.lastErr = ErrorOf(r.resp[retries + 1])
       /\ (Len(r.resp) = retries + 1 /\ Failed(r) = 1..(retries + 1))
            => r.pc = "thrown"

C5_Witness ==
    LET r == fj[0]
    IN /\ retries >= 1
       /\ r.pc = "thrown"
       /\ r.calls = retries + 1
       /\ r.lastErr = "HttpError"

\* C6: a success-status response with a malformed body is reported as a parse
\* failure without a retry: it is the last attempt of the call.
C6_MalformedNotRetried ==
    LET r == fj[0]
    IN \A k \in 1..Len(r.resp) :
          Malformed(r.resp[k]) =>
              /\ r.calls = k
              /\ r.pc = "thrown"
              /\ r.lastErr = "SyntaxError"

\* C7: every attempt has its own timeout budget: no attempt is rejected by an
\* abort that was signalled before the attempt began.
C7_TimeoutPerAttempt ==
    LET r == fj[0]
    IN \A k \in 1..Len(r.resp) : r.resp[k].kind # "stale"

\* C8: in the pooled fetch of one item a timeout of one combination's call
\* does not touch its siblings: a call is aborted only when its own timer has
\* fired, every settled combination has the row its own call gives (a failure
\* only after its own R+1 attempts), and the pool does not fail.
C8_SiblingsUntouched ==
    /\ poolState # "rejected"
    /\ \A c \in DOMAIN fj :
          /\ (fj[c].lastErr = "AbortError" \/ aborted[c]) => fj[c].timer = "fired"
          /\ fj[c].pc \in {"fetching", "readJson", "readText"} => fj[c].timer = "armed"
          /\ (c \in DOMAIN task /\ Settled(c)) =>
                /\ task[c] = "resolved"
                /\ out[c].index = c
                /\ out[c].ok = (fj[c].pc = "returned")
                /\ out[c].ok => (out[c].error = "" /\ out[c].payload = fj[c].calls)
                /\ ~out[c].ok =>
                      /\ fj[c].calls = retries + 1
                      /\ out[c].error = fj[c].lastErr

\* one call has been aborted by its timer while a sibling is in flight with
\* its own timer armed and its signal not aborted
C8_Witness ==
    \E c, d \in DOMAIN fj :
        /\ c # d
        /\ fj[c].timer = "fired"
        /\ fj[c].lastErr = "AbortError"
        /\ fj[d].pc = "readJson"
        /\ fj[d].timer = "armed"
        /\ ~aborted[d]
        /\ task[d] = "inflight"

\* C9: the wait after failed attempt k is B*k for k in 1..R, call k+1 is
\* made only once that wait is over, and no wait follows the last attempt.
C9_LinearBackoff ==
    LET r == fj[0]
        nFailed == Cardinality(Failed(r))
    IN /\ \A k \in 1..Len(r.waits) :
            /\ r.waits[k] = retryDelayMs * k
            /\ k <= retries
            /\ ~Success(r.resp[k])
       /\ Len(r.waits) = (IF nFailed <= retries THEN nFailed ELSE retries)
       /\ r.calls <= r.slept + 1
       /\ r.slept <= Len(r.waits)
       /\ r.pc = "sleeping" => (Len(r.waits) = r.calls /\ r.slept = r.calls - 1)
       /\ r.pc = "thrown" => (Len(r.waits) = retries /\ r.slept = retries)

C9_Witness ==
    LET r == fj[0]
    IN /\ retries >= 2
       /\ retryDelayMs >= 1
       /\ r.pc = "thrown"
       /\ Len(r.waits) = retries
       /\ r.waits[2] = 2 * retryDelayMs

\* C10: once a fetchJson call has returned or thrown, the timer it armed is
\* no longer pending.
C10_TimerReleased ==
    \A c \in DOMAIN fj :
        fj[c].pc \in {"returned", "thrown"} => fj[c].timer # "armed"

\* the call gave up after its retries and its timer, which had not fired,
\* was cleared
C10_Witness ==
    /\ fj[0].pc = "thrown"
    /\ fj[0].calls = retries + 1
    /\ fj[0].timer = "cleared"

\* the base response lists no size value that discovery can use: no size
\* attribute, or only values that are not selectable or have no id
NoUsableSize(p) ==
    \/ ~p.size.present
    \/ \A k \in 1..Len(p.size.values) :
          ~p.size.values[k].selectable \/ p.size.values[k].id = ""

C20_TasksColorMajor ==
    stage = "tasks" =>
        LET nc == Len(disc.colors)
            ns == Len(disc.sizes)
        IN /\ DOMAIN items = 0..(nc * ns - 1)
           /\ \A i \in 0..(nc - 1) : \A j \in 0..(ns - 1) :
                 items[i * ns + j] =
                     [color |-> disc.colors[i + 1], size |-> disc.sizes[j + 1]]

\* color:{A,B} and size:{S,M} give [(A,S),(A,M),(B,S),(B,M)]
C20_Witness ==
    /\ stage = "tasks"
    /\ disc.colors = <<[id |-> "A"], [id |-> "B"]>>
    /\ disc.sizes = <<[id |-> "S"], [id |-> "M"]>>
    /\ items = ToArray(<<[color |-> [id |-> "A"], size |-> [id |-> "S"]],
                         [color |-> [id |-> "A"], size |-> [id |-> "M"]],
                         [color |-> [id |-> "B"], size |-> [id |-> "S"]],
                         [color |-> [id |-> "B"], size |-> [id |-> "M"]]>>)

\* the number of rows of the item's flat list made for combination (c, s)
RowsFor(c, s) ==
    Cardinality({k \in 1..Len(result.flatRows) :
                    /\ result.flatRows[k].color_id = c
                    /\ result.flatRows[k].size_id = s})

IsGenerated(c, s) ==
    /\ \E i \in 1..Len(disc.colors) : disc.colors[i].id = c
    /\ \E j \in 1..Len(disc.sizes) : disc.sizes[j].id = s

Range(seq) == {seq[k] : k \in 1..Len(seq)}

\* C11: when an item that passed discovery returns, its flat list has exactly
\* one row, a success or an error row, for every generated (color, size)
\* combination and no row for any other combination.
C11_OneRecordPerCombination ==
    stage = "done" =>
        /\ Len(result.flatRows) = Len(disc.colors) * Len(disc.sizes)
        /\ \A c \in Range(ColorIds) : \A s \in Range(SizeIds) :
              RowsFor(c, s) = IF IsGenerated(c, s) THEN 1 ELSE 0

\* an item of two combinations has returned with one success row and one
\* error row
C11_Witness ==
    /\ stage = "done"
    /\ Len(result.flatRows) = 2
    /\ result.flatRows[1].ok
    /\ ~result.flatRows[2].ok

ValidPos ==
    IF driver = "bulk" THEN Range(ValidJobs(input)) ELSE 1..Len(input)

\* the extraction of input row k has started
Dispatched(k) ==
    IF driver = "bulk"
    THEN \E j \in DOMAIN task : items[j] = k /\ task[j] # "undispatched"
    ELSE pos >= k

\* input row k has settled: the bulk driver's mapper has returned for it, a
\* sequential driver has left the body of its loop for it
Completed(k) ==
    IF driver = "bulk"
    THEN \E j \in DOMAIN task : items[j] = k /\ task[j] = "resolved"
    ELSE pos > k \/ (pos = k /\ phase \in {"next", "json", "csv", "done"})

\* an input row after row k has started
NextStarted(k) == \E k2 \in ValidPos : k2 > k /\ Dispatched(k2)

\* what the extraction of input row k gave
ResultOf(k) ==
    IF driver = "bulk"
    THEN out[CHOOSE j \in DOMAIN items : items[j] = k]
    ELSE results[k]

SummariesOf(k) == {i \in 1..Len(jsonSink) : jsonSink[i].item = k}

\* the sinks hold the complete entries of input row k: one summary record
\* and every flat row
InSinks(k) ==
    /\ Cardinality(SummariesOf(k)) = 1
    /\ \A i \in SummariesOf(k) : jsonSink[i] = Summary(ResultOf(k))
    /\ Written(k) = Len(ResultOf(k).flatRows)
    /\ \A n \in 1..Len(ResultOf(k).flatRows) :
          \E i \in 1..Len(csvSink) : csvSink[i] = ResultOf(k).flatRows[n]

NoEntries(k) == SummariesOf(k) = {} /\ Written(k) = 0

\* the number of items the driver has processed
NumProcessed ==
    IF driver = "bulk"
    THEN Cardinality({j \in DOMAIN out : out[j] # Hole})
    ELSE Len(results)

\* the failure of input row k is on record in the output
ErrorRecorded(k) ==
    IF driver = "combined"
    THEN \E i \in 1..Len(csvSink) : csvSink[i] = Row(k, 0, FALSE)
    ELSE \E i \in 1..Len(jsonSink) :
            /\ jsonSink[i].item = k
            /\ ~jsonSink[i].ok
            /\ jsonSink[i].error # ""

\* C13: in every batch driver a failure while one item is processed becomes
\* that item's error record and the later items are still processed: when
\* the batch is over the number of items processed is the number of valid
\* input rows, whichever items failed, and the outer pool never rejects.
C13_FailureIsolated ==
    /\ poolState # "rejected"
    /\ phase = "done" =>
          /\ NumProcessed = Cardinality(ValidPos)
          /\ \A k \in ValidPos :
                /\ Completed(k)
                /\ ResultOf(k).item = k
                /\ ~ResultOf(k).ok =>
                      (ResultOf(k).error # "" /\ ErrorRecorded(k))

\* a batch is over in which an item failed and a later item succeeded
C13_Witness ==
    /\ phase = "done"
    /\ \E k, k2 \in ValidPos :
          /\ k < k2
          /\ ~ResultOf(k).ok
          /\ ResultOf(k2).ok
          /\ Len(ResultOf(k2).flatRows) > 0

RECURSIVE Sum(_)
Sum(seq) == IF seq = <<>> THEN 0 ELSE Head(seq) + Sum(Tail(seq))

\* per job of the bulk driver, colors x sizes as discovery gave them (nothing
\* for a job whose base query failed)
DiscoveredCombos ==
    [k \in 1..N |-> IF pipe[k - 1].discovered THEN pipe[k - 1].combos ELSE 0]

\* per job of the bulk driver, colors x sizes of a job whose extraction
\* returned its result, nothing for a job that failed
ReturnedCombos ==
    [k \in 1..N |-> IF out[k - 1].ok THEN pipe[k - 1].combos ELSE 0]

\* C16 as stated: when the bulk driver has written its output, the number of
\* data rows of the CSV is the sum over the items with a resolved id of
\* colors x sizes of the item.
C16_RowCountAllResolved ==
    (driver = "bulk" /\ phase = "done") => Len(DataRows) = Sum(DiscoveredCombos)

\* C16 as amended: the number of data rows is the sum of colors x sizes over
\* the items whose extraction returned a result, error rows of failed
\* combinations included; an item that failed before its combinations were
\* generated has no row, whatever discovery had found for it.
C16_RowCount ==
    (driver = "bulk" /\ phase = "done") =>
        /\ Len(DataRows) = Sum(ReturnedCombos)
        /\ \A j \in DOMAIN pipe :
              Written(items[j]) = IF out[j].ok THEN pipe[j].combos ELSE 0

\* a bulk batch is over with an error row in the CSV and with an item that
\* failed in the name query after discovery had given it combinations
C16_Witness ==
    /\ driver = "bulk"
    /\ phase = "done"
    /\ \E i \in 1..Len(DataRows) : ~DataRows[i].ok
    /\ \E i \in 1..Len(DataRows) : DataRows[i].ok
    /\ \E j \in DOMAIN pipe : pipe[j].pc = "threw" /\ pipe[j].combos > 0

\* C17: when the bulk driver has written its output, every input pair whose
\* url gives no item id is on record as skipped in the batch result, no
\* extraction was started for it and every other pair was processed.
C17_SkippedRecorded ==
    (driver = "bulk" /\ phase = "done") =>
        /\ \A k \in Range(InvalidJobs(input)) :
              /\ \E i \in 1..Len(jsonSink) : jsonSink[i].item = k
              /\ \A j \in DOMAIN items : items[j] # k
        /\ \A k \in Range(ValidJobs(input)) : Completed(k)

\* C18: an item whose discovery gives no color is recorded as failed, with an
\* error, and no variation query is issued for it: no name query, no task,
\* no combination fetch.
C18_NoColorsNoFetch ==
    \A j \in DOMAIN pipe :
        (pipe[j].discovered /\ ~pipe[j].hasColors) =>
            /\ ~pipe[j].fetched
            /\ pipe[j].tasks = 0
            /\ task[j] = "resolved"
            /\ ~out[j].ok
            /\ out[j].error # ""
            /\ out[j].flatRows = <<>>
            /\ phase \in {"csv", "done"} => ErrorRecorded(items[j])

\* a bulk batch is over in which one item had no color and another item
\* went on to its variation queries
C18_Witness ==
    /\ driver = "bulk"
    /\ phase = "done"
    /\ \E j, j2 \in DOMAIN pipe :
          /\ pipe[j].discovered
          /\ ~pipe[j].hasColors
          /\ ~out[j].ok
          /\ pipe[j2].fetched
          /\ out[j2].ok

\* ---- the order of an item's rows: properties ---------------------------------

\* the combination generated at index i (from 0): colors outermost, then sizes
GeneratedColor(i) == disc.colors[(i \div Len(disc.sizes)) + 1].id

GeneratedSize(i) == disc.sizes[(i % Len(disc.sizes)) + 1].id

\* C21: the flat row list of an item is in combination-generation order
\* whatever the order in which the combination fetches complete: a row is
\* stored at the index of its combination as soon as its fetch is over, and
\* flat row i of the returned item carries the color id and the size id of
\* generated combination i.
C21_RowsInGenerationOrder ==
    /\ \A c \in DOMAIN out :
          out[c] # Hole =>
              /\ out[c].index = c
              /\ out[c].color_id = GeneratedColor(c)
              /\ out[c].size_id = GeneratedSize(c)
    /\ stage = "done" =>
          /\ Len(result.flatRows) = N
          /\ \A k \in 1..N :
                /\ result.flatRows[k].color_id = GeneratedColor(k - 1)
                /\ result.flatRows[k].size_id = GeneratedSize(k - 1)

\* the fetch of the second combination is over and its row is stored while
\* the fetch of the first combination is still in flight
C21_Witness ==
    /\ poolState = "pending"
    /\ {0, 1} \subseteq DOMAIN task
    /\ task[0] = "inflight"
    /\ task[1] = "resolved"
    /\ out[1] # Hole
    /\ out[0] = Hole

\* ---- the matrix of an item: properties ---------------------------------------

\* the last flat row with the color id and the size id of flat row k
LastRowOf(k) ==
    LET rows == result.flatRows
        same == {j \in 1..Len(rows) :
                    /\ rows[j].color_id = rows[k].color_id
                    /\ rows[j].size_id = rows[k].size_id}
    IN rows[CHOOSE j \in same : \A j2 \in same : j2 <= j]

\* some two flat rows have the same color id and the same size id
HasDuplicateKey ==
    \E j, k \in 1..Len(result.flatRows) :
        /\ j < k
        /\ result.flatRows[j].color_id = result.flatRows[k].color_id
        /\ result.flatRows[j].size_id = result.flatRows[k].size_id

\* the matrix has one group per color id, and under every key the last row
\* of that key
LaterRowKept ==
    stage = "done" =>
        /\ result.ok
        /\ \A g, h \in 1..Len(result.matrix) :
              result.matrix[g].color_id = result.matrix[h].color_id => g = h
        /\ \A k \in 1..Len(result.flatRows) :
              LET row == result.flatRows[k]
                  g == GroupOf(result.matrix, row.color_id)
              IN /\ g # 0
                 /\ row.size_id \in DOMAIN result.matrix[g].sizes
                 /\ result.matrix[g].sizes[row.size_id] = LastRowOf(k)

\* C22: when two result rows of an item carry the same (color id, size id)
\* pair, the matrix keeps the later row, the aggregation emits a warning, and
\* the item does not fail.
C22_DuplicateKeyWarned ==
    /\ LaterRowKept
    /\ (stage = "done" /\ HasDuplicateKey) => result.warnings # <<>>

\* ---- the claims of the pool: properties --------------------------------------

\* the workers suspended on the mapper of task i
Holders(i) == {w \in DOMAIN workers : workers[w].pc = "await" /\ workers[w].my = i}

\* every task in flight is held by one worker, the dispatched tasks are an
\* initial segment of the indices, and a resolved pool has resolved them all
ClaimedOnce ==
    poolState # "idle" =>
        /\ \A i \in DOMAIN task :
              /\ task[i] = "inflight" => Cardinality(Holders(i)) = 1
              /\ task[i] # "inflight" => Holders(i) = {}
              /\ task[i] # "undispatched" =>
                    \A j \in DOMAIN task : j < i => task[j] # "undispatched"
        /\ poolState = "resolved" =>
              \A i \in DOMAIN task : task[i] = "resolved"

\* a task is dispatched from the undispatched state only, the lowest
\* undispatched index first, and a settled task stays as it is
ClaimStep ==
    poolState # "idle" =>
        \A i \in DOMAIN task :
            /\ Settled(i) => task'[i] = task[i]
            /\ task[i] = "inflight" => task'[i] # "undispatched"
            /\ (task[i] = "undispatched" /\ task'[i] # "undispatched") =>
                  /\ task'[i] = "inflight"
                  /\ \A j \in DOMAIN task : j < i => task[j] # "undispatched"

\* C25: every index 0..N-1 is claimed by exactly one worker exactly once: no
\* task is executed twice, none is skipped when all mappers resolve, and the
\* tasks are dispatched in ascending index order.
C25_EachIndexClaimedOnce == [](ClaimedOnce) /\ [][ClaimStep]_vars

\* two workers have shared more tasks than there are workers, every worker
\* has made its last claim past the end of the list, and the pool has resolved
C25_Witness ==
    /\ poolState = "resolved"
    /\ limit = 2
    /\ N = 3
    /\ idx = N + 2

\* C27: with an integer limit <= 0 the pool behaves as with limit 1: it has
\* exactly one worker, a task is dispatched only when every task before it
\* has settled, so the tasks run strictly one at a time in index order, and
\* the pool resolves only after all N tasks have been executed.
C27_NonPositiveLimitIsOne ==
    (limit <= 0 /\ poolState # "idle") =>
        /\ Len(workers) = 1
        /\ Cardinality(InFlight) <= 1
        /\ \A i \in DOMAIN task :
              task[i] # "undispatched" =>
                  \A j \in DOMAIN task : j < i => Settled(j)
        /\ poolState = "resolved" =>
              /\ \A i \in DOMAIN task : task[i] = "resolved"
              /\ \A i \in DOMAIN items : out[i] = MapperValue(items[i], i)
        /\ (\A i \in DOMAIN task : task[i] = "resolved") => poolState = "resolved"

\* a pool called with a negative limit has resolved after several tasks
C27_Witness ==
    /\ limit < 0
    /\ poolState = "resolved"
    /\ N >= 2

\* ---- cancellation of the pool: properties ------------------------------------

\* once the pool has been asked to stop, no step dispatches a task
NoDispatchAfterCancel ==
    (cancelled /\ poolState # "idle") =>
        \A i \in DOMAIN task :
            task[i] = "undispatched" => task'[i] = "undispatched"

\* a task in flight stays in flight until its own mapper settles it
DispatchedRunToCompletion ==
    poolState # "idle" =>
        \A i \in DOMAIN task :
            task[i] = "inflight" => task'[i] # "undispatched"

\* C23: the pool supports cooperative cancellation: once cancellation is
\* signalled no task that has not yet been dispatched is ever dispatched, and
\* every task already dispatched runs to its normal completion.
C23_CooperativeCancellation ==
    [][NoDispatchAfterCancel /\ DispatchedRunToCompletion]_vars

\* ---- the nested pools of the bulk driver: properties -------------------------

\* the jobs whose extractOneProduct has started and has not returned or thrown
Processing == {j \in DOMAIN pipe : pipe[j].pc \in {"base", "fallback", "pool"}}

\* the combination fetches of job j that have been dispatched and not settled
FetchesInFlight(j) ==
    IF pipe[j].pc = "pool" THEN pipe[j].dispatched - pipe[j].settled ELSE 0

RECURSIVE TotalInFlight(_)
\* the combination fetches in flight of the jobs 0..j
TotalInFlight(j) ==
    IF j < 0 THEN 0 ELSE FetchesInFlight(j) + TotalInFlight(j - 1)

\* C26: with the pool nested at two levels in the bulk driver (outer limit
\* P = productConcurrency >= 1 across items, inner limit K = concurrency >= 1
\* across the combinations of one item), in every reachable state at most P
\* items are being processed and at most P*K combination fetches are in
\* flight in total, at most K of them for one item.
C26_NestedPoolsBounded ==
    (limit >= 1 /\ concurrency >= 1 /\ phase = "pool") =>
        /\ Cardinality(Processing) <= limit
        /\ \A j \in DOMAIN pipe : FetchesInFlight(j) <= concurrency
        /\ TotalInFlight(Cardinality(DOMAIN pipe) - 1) <= limit * concurrency

\* two items are being processed under an outer limit of 2, each with its
\* inner pool of limit 1 full and a combination still undispatched
C26_Witness ==
    /\ phase = "pool"
    /\ limit = 2
    /\ concurrency = 1
    /\ Cardinality(Processing) = 2
    /\ TotalInFlight(Cardinality(DOMAIN pipe) - 1) = 2
    /\ \A j \in DOMAIN pipe : pipe[j].dispatched < pipe[j].tasks

\* ---- the readers of the input file: properties -------------------------------

\* the data line of the input file
DataLine == csvText[2]

Commas(line) == {i \in 1..Len(line) : line[i] = ","}

NoQuote(line) == \A i \in 1..Len(line) : line[i] # "\""

\* the positions of the first separator of a line and of its second
\* separator, or of the end of the line when it has one separator only
FirstComma(line) == CHOOSE i \in Commas(line) : \A j \in Commas(line) : i <= j

SecondComma(line) ==
    LET later == Commas(line) \ {FirstComma(line)}
    IN IF later = {} THEN Len(line) + 1
       ELSE CHOOSE i \in later : \A j \in later : i <= j

\* the text before the first separator, the text after it, and the text
\* between the first and the second separator, without the blanks around them
SkuText(line) == Trim(SubSeq(line, 1, FirstComma(line) - 1))

AfterFirstComma(line) == Trim(SubSeq(line, FirstComma(line) + 1, Len(line)))

SecondField(line) ==
    Trim(SubSeq(line, FirstComma(line) + 1, SecondComma(line) - 1))

\* the rows read from the data line when its url is taken to be url
RowsWith(line, url) ==
    IF Commas(line) = {} \/ SkuText(line) = <<>> \/ url = <<>> THEN <<>>
    ELSE <<[sku |-> SkuText(line), url |-> url]>>

\* the data line is sku,"X" with no quote in sku and in X
QuotedUrl(line) ==
    /\ Commas(line) # {}
    /\ NoQuote(SubSeq(line, 1, FirstComma(line)))
    /\ Len(line) >= FirstComma(line) + 2
    /\ line[FirstComma(line) + 1] = "\""
    /\ line[Len(line)] = "\""
    /\ NoQuote(SubSeq(line, FirstComma(line) + 2, Len(line) - 1))

\* the statement of C24 for all three readers: a data line sku,url written
\* without quotes, whose url does not start with a separator, gives the row
\* whose url is everything after the first separator
C24_UrlCompleteEveryReader ==
    (phase = "start" /\ NoQuote(DataLine) /\ Commas(DataLine) # {}
       /\ SkuText(DataLine) # <<>> /\ SecondField(DataLine) # <<>>) =>
        input = <<[sku |-> SkuText(DataLine), url |-> AfterFirstComma(DataLine)]>>

\* C24: the reader of the incremental driver returns, for every data line
\* sku,url, the url complete even when it contains commas: everything after
\* the first separator belongs to the url. The reader of the combined driver
\* takes as url the text between the first and the second separator; so does
\* the reader of the bulk driver for a line without quotes, and it keeps the
\* commas of a url written between quotes.
C24_UrlCompleteIncremental ==
    phase = "start" =>
        /\ driver = "incremental" =>
              input = RowsWith(DataLine, AfterFirstComma(DataLine))
        /\ driver = "combined" =>
              input = RowsWith(Trim(DataLine), SecondField(Trim(DataLine)))
        /\ (driver = "bulk" /\ NoQuote(DataLine)) =>
              input = RowsWith(DataLine, SecondField(DataLine))
        /\ (driver = "bulk" /\ QuotedUrl(DataLine)) =>
              input = RowsWith(DataLine,
                               Trim(SubSeq(DataLine, FirstComma(DataLine) + 2,
                                           Len(DataLine) - 1)))

\* the incremental driver has read a row whose url contains a comma
C24_Witness ==
    /\ phase = "start"
    /\ driver = "incremental"
    /\ Len(input) = 1
    /\ \E i \in 1..Len(input[1].url) : input[1].url[i] = ","

\* ---- the sinks of the incremental driver: properties -------------------------

IsPrefix(a, b) == Len(a) <= Len(b) /\ SubSeq(b, 1, Len(a)) = a

\* the failed items of the incremental driver: no row in the tabular sink,
\* one line in the structured sink once the catch block has run, none before,
\* and that line an error summary
FailedItemsInSinks ==
    driver = "incremental" =>
        \A k \in 1..Len(results) :
            ~results[k].ok =>
                /\ Written(k) = 0
                /\ Cardinality(SummariesOf(k)) =
                      IF pos = k /\ phase = "errsummary" THEN 0 ELSE 1
                /\ \A i \in SummariesOf(k) :
                      /\ ~jsonSink[i].ok
                      /\ jsonSink[i].error # ""
                      /\ jsonSink[i].count = 0

\* the step in which an extraction ends and the step of the catch block
\* leave the tabular sink as it is
CatchLeavesCsv ==
    (driver = "incremental" /\ phase \in {"extract", "errsummary"}) =>
        csvSink' = csvSink

\* C28: in the incremental driver, when the extraction of an item throws,
\* with or without rows already collected, exactly one error summary line
\* for the item is appended to the JSONL sink and the CSV sink is left
\* unchanged: none of the rows collected before the failure is written.
C28_FailedItemOneErrorLine == [](FailedItemsInSinks) /\ [][CatchLeavesCsv]_vars

\* the second item failed with rows collected, after a first item whose rows
\* were written, and its catch block has run
C28_Witness ==
    /\ driver = "incremental"
    /\ phase = "done"
    /\ Len(results) = 2
    /\ results[1].ok
    /\ Written(1) > 0
    /\ ~results[2].ok
    /\ results[2].collected > 0
    /\ Len(jsonSink) = 2

\* the tabular file, once it has a line, starts with the header line and has
\* no other header line, and it has a line once the output files are prepared
HeaderOnceFirst ==
    /\ csvSink # <<>> =>
          /\ csvSink[1] = CsvHeader
          /\ \A i \in 2..Len(csvSink) : csvSink[i] # CsvHeader
    /\ phase \notin {"start", "exit"} => csvSink # <<>>

\* C29: both sinks of the incremental driver are append-only: in every step
\* the earlier content of each sink is a prefix of its later content, also
\* when the run starts with the non-empty output files of an earlier run,
\* and once the output files are prepared the CSV header line occurs exactly
\* once, as the first line.
C29_SinksAppendOnly ==
    /\ [][IsPrefix(csvSink, csvSink') /\ IsPrefix(jsonSink, jsonSink')]_vars
    /\ [](HeaderOnceFirst)

\* a run started on the files of an earlier run, which had written a summary
\* and a row, is over with a summary and rows of its own after them
C29_Witness ==
    /\ phase = "done"
    /\ Len(jsonSink) >= 2
    /\ jsonSink[1].item = -1
    /\ Written(-1) > 0
    /\ Written(1) > 0
    /\ csvSink[1] = CsvHeader

\* C30: in the incremental driver the summary line of an item is appended
\* before any of its CSV rows: in every reachable state, a termination in the
\* middle of an item included, a CSV row of item i exists only if the JSONL
\* summary of item i exists, and once item i has settled the number of its CSV
\* rows is the variant count of its summary.
C30_SummaryBeforeRows ==
    driver = "incremental" =>
        \A k \in 1..Len(input) :
            /\ Written(k) > 0 => Cardinality(SummariesOf(k)) = 1
            /\ \A i \in SummariesOf(k) : Written(k) <= jsonSink[i].count
            /\ Completed(k) =>
                  /\ Cardinality(SummariesOf(k)) = 1
                  /\ \A i \in SummariesOf(k) : Written(k) = jsonSink[i].count

\* the incremental driver was terminated after the first of the two rows of
\* an item, whose summary is in the structured sink
C30_Witness ==
    /\ ~running
    /\ driver = "incremental"
    /\ phase = "rows"
    /\ Written(pos) = 1
    /\ \E i \in SummariesOf(pos) : jsonSink[i].count = 2

====
